---- MODULE Spec2Model ----
EXTENDS Integers, Sequences, FiniteSets, TLC

\* Model of backend/app/converters/__init__.py: the converter registry,
\* its load phase, and the query functions served after it.

VARIABLES
  phase,                  \* "load" while module-level registration runs, then "serve"
  loadIdx,                \* next _register_converter call of the module body
  CONVERTERS,             \* ordered dict name -> class, as a sequence of pairs
  AVAILABLE_CONVERTERS,   \* list of names
  heap,                   \* dict objects: "U" is UNAVAILABLE_CONVERTERS, "R" a returned copy
  retRef,                 \* dict object the caller holds from get_unavailable_converters
  mutCount,               \* caller mutations made on that object
  meta,                   \* static get_info() metadata per converter class
  call,                   \* last public function called
  result,                 \* its returned instance (NoInstance if it raised)
  err,                    \* the exception it raised (kind "none" if it returned)
  infoResult,             \* list returned by get_all_converter_info
  bSuffix,                \* get_best_converter_for_file: file_path.suffix
  bExt,                   \*   ext
  bList,                  \*   converter_priority
  bIdx,                   \*   position of the for loop
  bPc,                    \*   "idle" | "walk" | "returned" | "raised"
  bArgs,                  \*   <<api_key, base_url>>
  outcome,                \*   per converter: constructor / supports_file outcome in this call
  ctorCount,              \*   constructions per converter during the loop
  supCount,               \*   supports_file calls per converter during the loop
  fallbackCount,          \*   constructions by the final fallback
  loadExc,                \* str(e) of the exception each _register_converter call caught
                          \* (kind "none" if it raised nothing)
  handed                  \* identities of the converter instances returned to the caller

vars == <<phase, loadIdx, CONVERTERS, AVAILABLE_CONVERTERS, heap, retRef, mutCount,
          meta, call, result, err, infoResult, bSuffix, bExt, bList, bIdx, bPc, bArgs,
          outcome, ctorCount, supCount, fallbackCount, loadExc, handed>>

----------------------------------------------------------------------------
\* Declarations of the module body (registration order).

Declared == <<"markitdown", "docling", "marker", "pypandoc", "unstructured",
              "mammoth", "html2text">>

Names == {Declared[i] : i \in 1..Len(Declared)}

ClassOf == [n \in Names |->
              CASE n = "markitdown"   -> "MarkitdownConverter"
                [] n = "docling"      -> "DoclingConverter"
                [] n = "marker"       -> "MarkerConverter"
                [] n = "pypandoc"     -> "PypandocConverter"
                [] n = "unstructured" -> "UnstructuredConverter"
                [] n = "mammoth"      -> "MammothConverter"
                [] n = "html2text"    -> "Html2textConverter"]

\* Outcome of the import/getattr in _register_converter: success, an
\* ImportError, or any other Exception; str(e) of the exception is drawn
\* from Msgs (an exception may carry an empty message).
LoadResults == {"ok", "ImportError", "Exception"}

Msgs == {"", "err"}

\* Ordered-dict helpers for CONVERTERS.
Keys(d) == {d[i][1] : i \in 1..Len(d)}

Lookup(d, k) == LET i == CHOOSE j \in 1..Len(d) : d[j][1] = k IN d[i][2]

Range(s) == {s[i] : i \in 1..Len(s)}

\* Variant in which the name is appended to AVAILABLE_CONVERTERS before the
\* class lookup, so a failing getattr leaves it listed as available too.
RegisterConverterLateAppend(conv, avail, unavail, name, res, msg) ==
  CASE res = "ok" -> [conv |-> Append(conv, <<name, ClassOf[name]>>),
                      avail |-> Append(avail, name), unavail |-> unavail]
    [] res = "Exception" -> [conv |-> conv, avail |-> Append(avail, name),
                             unavail |-> (name :> msg) @@ unavail]
    [] OTHER -> [conv |-> conv, avail |-> avail, unavail |-> (name :> msg) @@ unavail]

\* Variant recording a fixed reason instead of str(e).
RegisterConverterFixedReason(conv, avail, unavail, name, res, msg) ==
  IF res = "ok"
    THEN [conv |-> Append(conv, <<name, ClassOf[name]>>),
          avail |-> Append(avail, name),
          unavail |-> unavail]
    ELSE [conv |-> conv, avail |-> avail, unavail |-> (name :> "import failed") @@ unavail]

\* _register_converter(name, ...) applied to (CONVERTERS, AVAILABLE, UNAVAILABLE)
RegisterConverter(conv, avail, unavail, name, res, msg) ==
  IF res = "ok"
    THEN [conv |-> Append(conv, <<name, ClassOf[name]>>),
          avail |-> Append(avail, name),
          unavail |-> unavail]
    ELSE [conv |-> conv, avail |-> avail, unavail |-> (name :> msg) @@ unavail]

----------------------------------------------------------------------------
\* Inputs of the query functions.

ApiKeys == {"None", "key"}

BaseUrls == {"None", "url"}

BestArgs == <<"key", "url">>

Ids == Names \cup {"bogus"}

Outcomes == {"ctorRaise", "supRaise", "supFalse", "supTrue"}

EmptyDict == [k \in {} |-> "x"]

PlainMeta == [n \in Names |-> [name |-> ClassOf[n]]]

DefaultCounts == [n \in Names |-> 0]

Unasked == [n \in Names |-> "unasked"]

NoCall == [fn |-> "none", id |-> "none", api |-> "None", base |-> "None"]

NoInstance == [obj |-> -1, cls |-> "none", api |-> "None", base |-> "None"]

NoError == [kind |-> "none", msg |-> ""]

NoException == [n \in Names |-> [kind |-> "none", msg |-> ""]]

\* Instances the caller may hold at once (each successful construction
\* returned to the caller is a new object).
MaxObjs == 2

\* Module state before the registration calls, apart from the metadata.
InitState ==
  /\ phase = "load"
  /\ loadIdx = 1
  /\ CONVERTERS = <<>>
  /\ AVAILABLE_CONVERTERS = <<>>
  /\ heap = [o \in {"U", "R"} |-> EmptyDict]
  /\ retRef = "none"
  /\ mutCount = 0
  /\ call = NoCall
  /\ result = NoInstance
  /\ err = NoError
  /\ infoResult = <<>>
  /\ bSuffix = <<>>
  /\ bExt = "none"
  /\ bList = <<>>
  /\ bIdx = 0
  /\ bPc = "idle"
  /\ bArgs = <<"None", "None">>
  /\ outcome = Unasked
  /\ ctorCount = DefaultCounts
  /\ supCount = DefaultCounts
  /\ fallbackCount = 0
  /\ loadExc = NoException
  /\ handed = {}

Init == InitState /\ meta = PlainMeta

\* One module-level _register_converter(...) call.
LoadStep ==
  /\ phase = "load"
  /\ \E res \in LoadResults, msg \in Msgs :
       /\ (res = "ok" => msg = "")
       /\ LET r == RegisterConverter(CONVERTERS, AVAILABLE_CONVERTERS, heap["U"],
                                     Declared[loadIdx], res, msg)
          IN /\ CONVERTERS' = r.conv
             /\ AVAILABLE_CONVERTERS' = r.avail
             /\ heap' = [heap EXCEPT !["U"] = r.unavail]
             /\ loadExc' = IF res = "ok" THEN loadExc
                           ELSE [loadExc EXCEPT ![Declared[loadIdx]] = [kind |-> "raised", msg |-> msg]]
  /\ loadIdx' = loadIdx + 1
  /\ phase' = IF loadIdx = Len(Declared) THEN "serve" ELSE "load"
  /\ UNCHANGED <<retRef, mutCount, meta, call, result, err, infoResult, bSuffix, bExt, bList, bIdx,
                 bPc, bArgs, outcome, ctorCount, supCount, fallbackCount, handed>>

----------------------------------------------------------------------------
\* file_path.suffix.lower().lstrip(".") on a suffix given as a sequence of
\* characters (Path.suffix keeps its single leading dot).

UpperChars == <<"A","B","C","D","E","F","G","H","I","J","K","L","M",
                "N","O","P","Q","R","S","T","U","V","W","X","Y","Z">>

LowerChars == <<"a","b","c","d","e","f","g","h","i","j","k","l","m",
                "n","o","p","q","r","s","t","u","v","w","x","y","z">>

\* Variant without case folding.
LowerCharIdentity(c) == c

LowerChar(c) ==
  IF \E i \in 1..26 : UpperChars[i] = c
    THEN LowerChars[CHOOSE i \in 1..26 : UpperChars[i] = c]
    ELSE c

Lower(s) == [i \in 1..Len(s) |-> LowerChar(s[i])]

RECURSIVE LStripDot(_)
LStripDot(s) == IF s # <<>> /\ Head(s) = "." THEN LStripDot(Tail(s)) ELSE s

RECURSIVE CharsToStr(_)
CharsToStr(s) == IF s = <<>> THEN "" ELSE Head(s) \o CharsToStr(Tail(s))

Ext(suffix) == CharsToStr(LStripDot(Lower(suffix)))

Suffixes == { <<".","p","d","f">>, <<".","P","D","F">>, <<".","d","o","c","x">>,
              <<".","h","t","m","l">>, <<".","H","t","m">>, <<".","J","P","G">>,
              <<".","m","p","3">>, <<".","x","y","z">> }

\* The priority dict built in get_best_converter_for_file.
ImageExts == {"png", "jpg", "jpeg", "gif", "bmp", "webp", "tiff", "heic"}

AudioExts == {"mp3", "wav", "m4a", "ogg", "flac"}

ExplicitExts == {"pdf", "docx", "doc", "pptx", "ppt", "xlsx", "xls", "html",
                 "htm", "csv", "json", "xml", "tex", "latex", "rst", "epub", "ipynb"}

Priority ==
  [e \in ExplicitExts \cup ImageExts \cup AudioExts |->
     CASE e = "pdf"   -> <<"marker", "docling", "markitdown", "pypandoc", "unstructured">>
       [] e = "docx"  -> <<"mammoth", "markitdown", "docling", "pypandoc", "unstructured">>
       [] e = "doc"   -> <<"markitdown", "pypandoc", "unstructured">>
       [] e = "pptx"  -> <<"docling", "markitdown", "unstructured">>
       [] e = "ppt"   -> <<"markitdown", "unstructured">>
       [] e = "xlsx"  -> <<"docling", "markitdown", "unstructured">>
       [] e = "xls"   -> <<"markitdown", "unstructured">>
       [] e = "html"  -> <<"html2text", "markitdown", "pypandoc", "unstructured">>
       [] e = "htm"   -> <<"html2text", "markitdown", "pypandoc", "unstructured">>
       [] e = "csv"   -> <<"markitdown", "unstructured">>
       [] e = "json"  -> <<"markitdown", "pypandoc">>
       [] e = "xml"   -> <<"markitdown", "html2text", "unstructured">>
       [] e = "tex"   -> <<"pypandoc">>
       [] e = "latex" -> <<"pypandoc">>
       [] e = "rst"   -> <<"pypandoc", "unstructured">>
       [] e = "epub"  -> <<"pypandoc", "markitdown">>
       [] e = "ipynb" -> <<"pypandoc">>
       [] e \in ImageExts -> <<"markitdown", "docling", "unstructured">>
       [] e \in AudioExts -> <<"markitdown">>]

\* priority.get(ext, AVAILABLE_CONVERTERS)
ConverterPriority(ext, avail) == IF ext \in DOMAIN Priority THEN Priority[ext] ELSE avail

----------------------------------------------------------------------------
\* get_converter

RECURSIVE JoinComma(_)
JoinComma(s) ==
  IF s = <<>> THEN ""
  ELSE IF Len(s) = 1 THEN Head(s)
  ELSE Head(s) \o ", " \o JoinComma(Tail(s))

\* Variant listing every declared converter instead of the available ones.
NotAvailableMsgAllDeclared(name, avail) ==
  "Converter '" \o name \o "' not available. Available converters: " \o JoinComma(Declared)

NotAvailableMsg(name, avail) ==
  "Converter '" \o name \o "' not available. Available converters: " \o JoinComma(avail)

\* Variant passing the credentials in swapped positions.
ConstructSwapped(conv, name, a, b, o, obj) ==
  IF o = "ctorRaise"
    THEN [raised |-> TRUE, val |-> [kind |-> "ConstructorError", msg |-> name]]
    ELSE [raised |-> FALSE, val |-> [obj |-> obj, cls |-> Lookup(conv, name), api |-> b, base |-> a]]

\* Variant handing out one shared instance instead of constructing a new one.
ConstructShared(conv, name, a, b, o, obj) ==
  IF o = "ctorRaise"
    THEN [raised |-> TRUE, val |-> [kind |-> "ConstructorError", msg |-> name]]
    ELSE [raised |-> FALSE, val |-> [obj |-> 0, cls |-> Lookup(conv, name), api |-> a, base |-> b]]

\* CONVERTERS[name](api_key=..., base_url=...): the constructor raises when
\* the drawn outcome is "ctorRaise"; otherwise a new object with identity obj.
Construct(conv, name, a, b, o, obj) ==
  IF o = "ctorRaise"
    THEN [raised |-> TRUE, val |-> [kind |-> "ConstructorError", msg |-> name]]
    ELSE [raised |-> FALSE, val |-> [obj |-> obj, cls |-> Lookup(conv, name), api |-> a, base |-> b]]

GetConverter(conv, avail, name, a, b, o, obj) ==
  IF name \notin Keys(conv)
    THEN [raised |-> TRUE, val |-> [kind |-> "ValueError", msg |-> NotAvailableMsg(name, avail)]]
    ELSE Construct(conv, name, a, b, o, obj)

\* Identity of the next object returned to the caller.
NewObj(h) == Cardinality(h)

\* Variant retrying a candidate whose constructor raised.
AfterCandidateRetry(i, o) == IF o = "ctorRaise" THEN i ELSE i + 1

\* The loop advances to the next candidate after a failed one.
AfterCandidate(i, o) == i + 1

CountCap == 2

Inc(n) == IF n < CountCap THEN n + 1 ELSE n

MaxMutations == 2

\* Values a call's bookkeeping holds between calls.
ResetCall ==
  /\ call' = NoCall /\ result' = NoInstance /\ err' = NoError /\ infoResult' = <<>>
  /\ bSuffix' = <<>> /\ bExt' = "none" /\ bList' = <<>> /\ bIdx' = 0 /\ bPc' = "idle"
  /\ bArgs' = <<"None", "None">> /\ outcome' = Unasked
  /\ ctorCount' = DefaultCounts /\ supCount' = DefaultCounts /\ fallbackCount' = 0

\* No call in progress (single-threaded caller).
Serving == phase = "serve" /\ call.fn = "none"

\* A call that may return a converter instance.
CanConstruct == Cardinality(handed) < MaxObjs

\* get_converter(converter_type, api_key, base_url)
GetConverterCall ==
  /\ Serving
  /\ CanConstruct
  /\ \E id \in Ids, a \in ApiKeys, b \in BaseUrls, o \in {"ctorRaise", "supTrue"} :
       LET r == GetConverter(CONVERTERS, AVAILABLE_CONVERTERS, id, a, b, o, NewObj(handed))
       IN /\ (id \notin Keys(CONVERTERS) => o = "supTrue")
          /\ call' = [fn |-> "get_converter", id |-> id, api |-> a, base |-> b]
          /\ result' = IF r.raised THEN NoInstance ELSE r.val
          /\ err' = IF r.raised THEN r.val ELSE NoError
          /\ handed' = IF r.raised THEN handed ELSE handed \cup {r.val.obj}
  /\ UNCHANGED <<phase, loadIdx, CONVERTERS, AVAILABLE_CONVERTERS, heap, retRef,
                 mutCount, meta, infoResult, bSuffix, bExt, bList, bIdx, bPc, bArgs, outcome,
                 ctorCount, supCount, fallbackCount, loadExc>>

\* get_best_converter_for_file: computing ext and converter_priority.
BestBegin ==
  /\ Serving
  /\ CanConstruct
  /\ \E s \in Suffixes :
       /\ bSuffix' = s
       /\ bExt' = Ext(s)
       /\ bList' = ConverterPriority(Ext(s), AVAILABLE_CONVERTERS)
  /\ bArgs' = BestArgs
  /\ bIdx' = 1
  /\ bPc' = "walk"
  /\ outcome' = Unasked
  /\ ctorCount' = DefaultCounts
  /\ supCount' = DefaultCounts
  /\ fallbackCount' = 0
  /\ call' = [NoCall EXCEPT !.fn = "get_best_converter_for_file"]
  /\ UNCHANGED <<phase, loadIdx, CONVERTERS, AVAILABLE_CONVERTERS, heap, retRef,
                 mutCount, meta, result, err, infoResult, loadExc, handed>>

\* One iteration of the for loop over converter_priority.
BestStep ==
  /\ bPc = "walk"
  /\ bIdx <= Len(bList)
  /\ LET n == bList[bIdx] IN
       IF n \notin Keys(CONVERTERS)
         THEN /\ bIdx' = bIdx + 1
              /\ UNCHANGED <<result, bPc, outcome, ctorCount, supCount, handed>>
         ELSE \E o \in (IF outcome[n] = "unasked" THEN Outcomes ELSE {outcome[n]}) :
                LET r == GetConverter(CONVERTERS, AVAILABLE_CONVERTERS, n,
                                      bArgs[1], bArgs[2], o, NewObj(handed))
                IN /\ outcome' = [outcome EXCEPT ![n] = o]
                   /\ ctorCount' = [ctorCount EXCEPT ![n] = Inc(@)]
                   /\ supCount' = IF o = "ctorRaise" THEN supCount
                                  ELSE [supCount EXCEPT ![n] = Inc(@)]
                   /\ IF o = "supTrue"
                        THEN /\ bPc' = "returned" /\ result' = r.val
                             /\ handed' = handed \cup {r.val.obj}
                             /\ bIdx' = bIdx
                        ELSE /\ bIdx' = AfterCandidate(bIdx, o)
                             /\ UNCHANGED <<bPc, result, handed>>
  /\ UNCHANGED <<phase, loadIdx, CONVERTERS, AVAILABLE_CONVERTERS, heap, retRef,
                 mutCount, meta, call, err, infoResult, bSuffix, bExt, bList, bArgs, fallbackCount,
                 loadExc>>

\* Variant falling back to the last available converter.
FallbackNameLast(avail) == avail[Len(avail)]

\* AVAILABLE_CONVERTERS[0]
FallbackName(avail) == avail[1]

\* After the loop: fallback to AVAILABLE_CONVERTERS[0], or "No converters
\* available". The fallback calls the constructor again, whose outcome need
\* not repeat the one seen in the loop.
BestEnd ==
  /\ bPc = "walk"
  /\ bIdx > Len(bList)
  /\ IF AVAILABLE_CONVERTERS # <<>>
       THEN \E o \in {"ctorRaise", "supTrue"} :
              LET r == GetConverter(CONVERTERS, AVAILABLE_CONVERTERS,
                                    FallbackName(AVAILABLE_CONVERTERS),
                                    bArgs[1], bArgs[2], o, NewObj(handed))
              IN /\ fallbackCount' = fallbackCount + 1
                 /\ bPc' = IF r.raised THEN "raised" ELSE "returned"
                 /\ result' = IF r.raised THEN NoInstance ELSE r.val
                 /\ err' = IF r.raised THEN r.val ELSE NoError
                 /\ handed' = IF r.raised THEN handed ELSE handed \cup {r.val.obj}
       ELSE /\ bPc' = "raised"
            /\ err' = [kind |-> "ValueError", msg |-> "No converters available"]
            /\ UNCHANGED <<fallbackCount, result, handed>>
  /\ UNCHANGED <<phase, loadIdx, CONVERTERS, AVAILABLE_CONVERTERS, heap, retRef,
                 mutCount, meta, call, infoResult, bSuffix, bExt, bList, bIdx, bArgs, outcome,
                 ctorCount, supCount, loadExc>>

----------------------------------------------------------------------------
\* get_all_converter_info and get_unavailable_converters

\* Variant in which "id" takes precedence over the metadata.
MergeIdFirst(d1, d2) == [k \in DOMAIN d1 \cup DOMAIN d2 |-> IF k \in DOMAIN d1 THEN d1[k] ELSE d2[k]]

\* {"id": name, **info}: keys of the unpacked dict override earlier ones.
Merge(d1, d2) == [k \in DOMAIN d1 \cup DOMAIN d2 |-> IF k \in DOMAIN d2 THEN d2[k] ELSE d1[k]]

GetAllConverterInfo(conv, m) ==
  [i \in 1..Len(conv) |-> Merge("id" :> conv[i][1], m[conv[i][1]])]

\* Variant returning UNAVAILABLE_CONVERTERS itself instead of a copy.
GetUnavailableConvertersAlias(h) == [ref |-> "U", heap |-> h]

\* UNAVAILABLE_CONVERTERS.copy(): a new dict object "R" with the same items.
GetUnavailableConverters(h) == [ref |-> "R", heap |-> [h EXCEPT !["R"] = h["U"]]]

\* get_all_converter_info()
GetAllInfoCall ==
  /\ Serving
  /\ call' = [NoCall EXCEPT !.fn = "get_all_converter_info"]
  /\ infoResult' = GetAllConverterInfo(CONVERTERS, meta)
  /\ UNCHANGED <<phase, loadIdx, CONVERTERS, AVAILABLE_CONVERTERS, heap, retRef,
                 mutCount, meta, result, err, bSuffix, bExt, bList, bIdx, bPc, bArgs, outcome,
                 ctorCount, supCount, fallbackCount, loadExc, handed>>

\* get_unavailable_converters()
GetUnavailableCall ==
  /\ Serving
  /\ LET r == GetUnavailableConverters(heap)
     IN /\ heap' = r.heap
        /\ retRef' = r.ref
  /\ call' = [NoCall EXCEPT !.fn = "get_unavailable_converters"]
  /\ UNCHANGED <<phase, loadIdx, CONVERTERS, AVAILABLE_CONVERTERS, mutCount, meta,
                 result, err, infoResult, bSuffix, bExt, bList, bIdx, bPc, bArgs, outcome, ctorCount, supCount,
                 fallbackCount, loadExc, handed>>

\* The caller mutates the dict it was returned: insert, delete or overwrite.
MutateReturned ==
  /\ retRef # "none"
  /\ mutCount < MaxMutations
  /\ LET d == heap[retRef] IN
       \E nd \in {("extra" :> "x") @@ d}
                 \cup {[j \in DOMAIN d \ {k} |-> d[j]] : k \in DOMAIN d}
                 \cup {[d EXCEPT ![k] = "x"] : k \in DOMAIN d} :
         heap' = [heap EXCEPT ![retRef] = nd]
  /\ mutCount' = mutCount + 1
  /\ UNCHANGED <<phase, loadIdx, CONVERTERS, AVAILABLE_CONVERTERS, retRef, meta,
                 call, result, err, infoResult, bSuffix, bExt, bList, bIdx, bPc, bArgs, outcome,
                 ctorCount, supCount, fallbackCount, loadExc, handed>>

\* The call's result is handed back and its frame dropped; the caller drops
\* any returned dict.
Return ==
  /\ call.fn # "none"
  /\ bPc # "walk"
  /\ ResetCall
  /\ retRef' = "none"
  /\ heap' = [heap EXCEPT !["R"] = EmptyDict]
  /\ mutCount' = 0
  /\ UNCHANGED <<phase, loadIdx, CONVERTERS, AVAILABLE_CONVERTERS, meta, loadExc, handed>>

Next == LoadStep \/ GetConverterCall \/ BestBegin \/ BestStep \/ BestEnd
        \/ GetAllInfoCall \/ GetUnavailableCall \/ MutateReturned \/ Return

Spec == Init /\ [][Next]_vars

----------------------------------------------------------------------------
\* get_info() metadata: each class's dict may or may not carry an "id" key.

MetaWithId(n) == [id |-> "custom", name |-> ClassOf[n]]

InitInfo ==
  /\ InitState
  /\ \E withId \in SUBSET Names :
       meta = [n \in Names |-> IF n \in withId THEN MetaWithId(n) ELSE PlainMeta[n]]

NextInfo == LoadStep \/ GetAllInfoCall \/ Return

SpecInfo == InitInfo /\ [][NextInfo]_vars

----------------------------------------------------------------------------
\* Properties

DeclIndex(n) == CHOOSE i \in 1..Len(Declared) : Declared[i] = n

LoadPartition ==
  /\ Range(AVAILABLE_CONVERTERS) \cap DOMAIN heap["U"] = {}
  /\ Range(AVAILABLE_CONVERTERS) \cup DOMAIN heap["U"] = Names
  /\ \A i, j \in 1..Len(AVAILABLE_CONVERTERS) :
       i < j => DeclIndex(AVAILABLE_CONVERTERS[i]) < DeclIndex(AVAILABLE_CONVERTERS[j])

\* C1 (original): after the load phase, available and unavailable names are
\* disjoint, cover all seven declared converters, the available list keeps
\* declaration order without duplicates, and every unavailable name has a
\* non-empty failure reason.
C1_Original ==
  phase = "serve" =>
    /\ LoadPartition
    /\ \A n \in DOMAIN heap["U"] : heap["U"][n] # ""

\* C1 (amended): after the load phase, available and unavailable names are
\* disjoint, cover all seven declared converters, the available list keeps
\* declaration order without duplicates, and every unavailable name is exactly
\* a name whose registration raised, recorded with str(e) of that exception as
\* reason (empty when the exception has no message); CONVERTERS holds exactly
\* the available names, in the same order.
C1_LoadPartition ==
  phase = "serve" =>
    /\ LoadPartition
    /\ \A n \in Names : (n \in DOMAIN heap["U"]) <=> (loadExc[n].kind # "none")
    /\ \A n \in DOMAIN heap["U"] : heap["U"][n] = loadExc[n].msg
    /\ Len(CONVERTERS) = Len(AVAILABLE_CONVERTERS)
    /\ \A i \in 1..Len(CONVERTERS) :
         CONVERTERS[i] = <<AVAILABLE_CONVERTERS[i], ClassOf[AVAILABLE_CONVERTERS[i]]>>

C1_Witness ==
  /\ phase = "serve"
  /\ Len(AVAILABLE_CONVERTERS) >= 2
  /\ \E n \in DOMAIN heap["U"] : heap["U"][n] = ""
  /\ \E n \in DOMAIN heap["U"] : heap["U"][n] = "err"

\* The returned instance is a new object, not one handed out before.
FreshInstance(fn) ==
  (call.fn = "none" /\ call'.fn = fn /\ err'.kind = "none") => result'.obj \notin handed

\* C2 (original): get_converter with a name that is not available raises the
\* ValueError listing exactly the available names; with an available name it
\* returns a fresh instance of that name's class built with api_key and
\* base_url.
C2_Original ==
  /\ [](call.fn = "get_converter" =>
          IF call.id \notin Range(AVAILABLE_CONVERTERS)
            THEN /\ result = NoInstance
                 /\ err = [kind |-> "ValueError",
                           msg |-> "Converter '" \o call.id \o "' not available. Available converters: "
                                   \o JoinComma(AVAILABLE_CONVERTERS)]
            ELSE /\ err = NoError
                 /\ result.cls = ClassOf[call.id]
                 /\ result.api = call.api /\ result.base = call.base)
  /\ [][FreshInstance("get_converter")]_vars

\* C2 (amended): as above, except that for an available name whose
\* constructor raises, get_converter propagates that exception.
C2_Lookup ==
  /\ [](call.fn = "get_converter" =>
          IF call.id \notin Range(AVAILABLE_CONVERTERS)
            THEN /\ result = NoInstance
                 /\ err = [kind |-> "ValueError",
                           msg |-> "Converter '" \o call.id \o "' not available. Available converters: "
                                   \o JoinComma(AVAILABLE_CONVERTERS)]
            ELSE \/ /\ err = NoError
                    /\ result.cls = ClassOf[call.id]
                    /\ result.api = call.api /\ result.base = call.base
                 \/ /\ result = NoInstance
                    /\ err = [kind |-> "ConstructorError", msg |-> call.id])
  /\ [][FreshInstance("get_converter")]_vars

C2_Witness ==
  /\ call.fn = "get_converter"
  /\ call.id \in Names \ Range(AVAILABLE_CONVERTERS)
  /\ Len(AVAILABLE_CONVERTERS) >= 2

\* First index of the priority list whose converter is available, constructs
\* and reports support in the loop (0 if none).
FirstQualifying ==
  LET Q == {i \in 1..Len(bList) : /\ bList[i] \in Range(AVAILABLE_CONVERTERS)
                                   /\ outcome[bList[i]] = "supTrue"}
  IN IF Q = {} THEN 0 ELSE CHOOSE i \in Q : \A j \in Q : i <= j

SpecPriorityRow ==
  (<<".","p","d","f">> :> <<"marker", "docling", "markitdown", "pypandoc", "unstructured">>)
  @@ (<<".","P","D","F">> :> <<"marker", "docling", "markitdown", "pypandoc", "unstructured">>)
  @@ (<<".","d","o","c","x">> :> <<"mammoth", "markitdown", "docling", "pypandoc", "unstructured">>)
  @@ (<<".","h","t","m","l">> :> <<"html2text", "markitdown", "pypandoc", "unstructured">>)
  @@ (<<".","H","t","m">> :> <<"html2text", "markitdown", "pypandoc", "unstructured">>)
  @@ (<<".","J","P","G">> :> <<"markitdown", "docling", "unstructured">>)
  @@ (<<".","m","p","3">> :> <<"markitdown">>)

\* C4: for a suffix of the table (any letter case), when every converter of
\* its row is available and every converter asked reports support, the
\* result is the row's first converter.
C4_TableHead ==
  (/\ bPc \in {"returned", "raised"}
   /\ bSuffix \in DOMAIN SpecPriorityRow
   /\ Range(SpecPriorityRow[bSuffix]) \subseteq Range(AVAILABLE_CONVERTERS)
   /\ \A n \in Names : outcome[n] \in {"unasked", "supTrue"}) =>
    /\ bPc = "returned"
    /\ result.cls = ClassOf[SpecPriorityRow[bSuffix][1]]

C4_Witness ==
  /\ bPc = "returned"
  /\ bSuffix = <<".","P","D","F">>
  /\ Range(SpecPriorityRow[bSuffix]) \subseteq Range(AVAILABLE_CONVERTERS)
  /\ outcome["marker"] = "supTrue"

\* C5: get_best_converter_for_file raises nothing but the "No converters
\* available" ValueError, whatever constructors and support checks raise.
C5_NoPropagation ==
  bPc = "raised" => err = [kind |-> "ValueError", msg |-> "No converters available"]

\* C6: with no converter available, get_best_converter_for_file raises the
\* "No converters available" ValueError and get_converter the "not available"
\* ValueError for every name, and nothing else.
C6_EmptyRegistry ==
  (phase = "serve" /\ AVAILABLE_CONVERTERS = <<>>) =>
    /\ bPc \in {"returned", "raised"} =>
         /\ bPc = "raised"
         /\ err = [kind |-> "ValueError", msg |-> "No converters available"]
    /\ call.fn = "get_converter" =>
         /\ result = NoInstance
         /\ err = [kind |-> "ValueError",
                   msg |-> "Converter '" \o call.id \o "' not available. Available converters: "]

C6_Witness ==
  /\ phase = "serve"
  /\ AVAILABLE_CONVERTERS = <<>>
  /\ bPc = "raised"
  /\ bList # <<>>

\* C7: get_unavailable_converters returns a dict equal to the mapping recorded
\* by the load phase, and mutating a returned dict never changes that mapping.
C7_CopySemantics ==
  [][/\ phase = "serve" => heap'["U"] = heap["U"]
     /\ (call.fn = "none" /\ call'.fn = "get_unavailable_converters")
          => heap'[retRef'] = heap["U"]]_vars

C7_Witness ==
  /\ call.fn = "get_unavailable_converters"
  /\ mutCount = MaxMutations
  /\ heap[retRef] # heap["U"]

\* C8: after the load phase, no step changes CONVERTERS, AVAILABLE_CONVERTERS
\* or UNAVAILABLE_CONVERTERS.
C8_ReadOnly ==
  [][phase = "serve" =>
       /\ UNCHANGED <<CONVERTERS, AVAILABLE_CONVERTERS>>
       /\ heap'["U"] = heap["U"]]_vars

C8_Witness ==
  /\ phase = "serve"
  /\ call.fn = "get_unavailable_converters"
  /\ mutCount >= 1
  /\ DOMAIN heap["U"] # {}

\* C9 (original): get_all_converter_info has one entry per available name, in
\* load order, whose "id" is that name, whatever keys get_info() returns.
C9_Original ==
  call.fn = "get_all_converter_info" =>
    /\ Len(infoResult) = Len(AVAILABLE_CONVERTERS)
    /\ \A i \in 1..Len(infoResult) : infoResult[i]["id"] = AVAILABLE_CONVERTERS[i]

\* C9 (amended): one entry per available name, in load order, carrying every
\* key of get_info(); its "id" is the name unless get_info() itself has an
\* "id" key, whose value then wins.
C9_InfoEntries ==
  call.fn = "get_all_converter_info" =>
    /\ Len(infoResult) = Len(AVAILABLE_CONVERTERS)
    /\ \A i \in 1..Len(infoResult) :
         LET n == AVAILABLE_CONVERTERS[i] IN
         /\ DOMAIN infoResult[i] = DOMAIN meta[n] \cup {"id"}
         /\ infoResult[i]["id"] = IF "id" \in DOMAIN meta[n] THEN meta[n]["id"] ELSE n
         /\ \A k \in DOMAIN meta[n] \ {"id"} : infoResult[i][k] = meta[n][k]

C9_Witness ==
  /\ call.fn = "get_all_converter_info"
  /\ Len(AVAILABLE_CONVERTERS) >= 2
  /\ \E i \in 1..Len(AVAILABLE_CONVERTERS) : "id" \in DOMAIN meta[AVAILABLE_CONVERTERS[i]]
  /\ \E i \in 1..Len(AVAILABLE_CONVERTERS) : "id" \notin DOMAIN meta[AVAILABLE_CONVERTERS[i]]

\* C10: within one get_best_converter_for_file call each candidate is
\* constructed and asked about support at most once, the loop position only
\* moves forward and stays within the list (so the loop ends), and the
\* fallback constructs at most once.
C10_NoRetry ==
  /\ [](\A n \in Names : ctorCount[n] <= 1 /\ supCount[n] <= 1)
  /\ [](fallbackCount <= 1)
  /\ [](bPc = "walk" => bIdx <= Len(bList) + 1)
  /\ [][bPc = "walk" /\ bPc' = "walk" => bIdx' > bIdx]_vars

C10_Witness ==
  /\ bPc \in {"returned", "raised"}
  /\ fallbackCount = 1
  /\ \E n \in Names : ctorCount[n] = 1 /\ outcome[n] = "ctorRaise"

====
